---- MODULE Spec2Model ----
(***************************************************************************)
(* Model of the Cloudflare Pages & Workers sync action:                    *)
(*   main         (src/sync-cloudflare.mjs)                                *)
(*   syncPages    (src/lib/utils.mjs, the lib/pages.mjs part)              *)
(*   naming utils (src/lib/workers.mjs, the lib/utils.mjs part)            *)
(*   syncWorker, buildBindings (src/lib/workers.mjs)                       *)
(*   applyDefaults (src/unnamed/part_001 and part_002, lib/defaults.mjs)   *)
(*                                                                         *)
(* Strings that the code takes apart or builds (names, branches, URLs) are *)
(* sequences of one-character strings.  Values that the code only compares *)
(* (environment flags, JSON scalars, source types) are tagged strings:     *)
(* "bool:true" is the JSON value true, "str:true" the JSON string "true",  *)
(* "undefined" a missing field, "unset" a missing environment variable.    *)
(***************************************************************************)
EXTENDS Integers, Sequences, FiniteSets, TLC

VARIABLES
    env,              \* process.env as read by main
    config,           \* parsed cloudflare.json
    remote,           \* the Pages project record held by the platform
    pc,               \* position of the run
    allowRecreate,    \* main's allowRecreate, passed to syncPages
    existingProject,  \* syncPages' existingProject (result of the lookup)
    calls,            \* remote calls, builds and file reads, in order
    thrown,           \* the error in flight or caught by main().catch
    raised,           \* the errors raised by remote calls, builds and reads, in order
    pagesUrl,         \* syncPages' return value
    outputs,          \* setOutput invocations; written: a line went to GITHUB_OUTPUT
    exitCode,         \* process exit status
    workerName,       \* syncWorker's workerName
    workerResult,     \* main's workerResult
    scripts,          \* names of the scripts held by the platform
    subdomainInfo,    \* syncWorker's subdomainInfo (result of subdomains.get)
    history,          \* the runs of syncPages that ended before this one, in order
    peer,             \* the locals of a second run of syncPages, suspended at an await
    fnIn,             \* arguments of the pure function under evaluation
    fnOut,            \* its result
    fnPc              \* "idle" | "ready" | "applied"

vars == <<env, config, remote, pc, allowRecreate, existingProject, calls,
          thrown, raised, pagesUrl, outputs, exitCode, workerName,
          workerResult, scripts, subdomainInfo, history, peer, fnIn, fnOut, fnPc>>

mainVars == <<env, config, remote, pc, allowRecreate, existingProject, calls,
              thrown, raised, pagesUrl, outputs, exitCode, workerName,
              workerResult, scripts, subdomainInfo, history, peer>>

fnVars == <<fnIn, fnOut, fnPc>>

----------------------------------------------------------------------------
(* Bounds *)

MaxBranchLen == 3

MaxRuns == 3

----------------------------------------------------------------------------
(* Program constants *)

NotFound == 404

ExitFailure == 1

HttpsPrefix == <<"h","t","t","p","s",":","/","/">>

PagesDomain == <<".","p","a","g","e","s",".","d","e","v">>

WorkersDomain == <<".","w","o","r","k","e","r","s",".","d","e","v">>

DefaultBranch == <<"m","a","i","n">>

----------------------------------------------------------------------------
(* Strings *)

RECURSIVE SeqsUpTo(_, _)
SeqsUpTo(S, n) ==
    IF n = 0 THEN {<<>>}
    ELSE LET shorter == SeqsUpTo(S, n - 1)
         IN  shorter \cup {Append(s, c) : s \in {t \in shorter : Len(t) = n - 1}, c \in S}

LowerOf(c) ==
    CASE c = "A" -> "a"
      [] c = "B" -> "b"
      [] c = "F" -> "f"
      [] c = "I" -> "i"
      [] c = "J" -> "j"
      [] c = "M" -> "m"
      [] c = "N" -> "n"
      [] c = "X" -> "x"
      [] c = "R" -> "r"
      [] OTHER   -> c

\* String.prototype.toLowerCase
ToLowerCase(s) == [i \in 1..Len(s) |-> LowerOf(s[i])]

\* String.prototype.replace(/\//g, '-'): scans left to right, every match
RECURSIVE ReplaceAllSlash(_)
ReplaceAllSlash(s) ==
    IF s = <<>> THEN <<>>
    ELSE IF Head(s) = "/" THEN <<"-">> \o ReplaceAllSlash(Tail(s))
    ELSE <<Head(s)>> \o ReplaceAllSlash(Tail(s))

\* String.prototype.replace('/', '-'): the first match only
RECURSIVE ReplaceFirstSlash(_)
ReplaceFirstSlash(s) ==
    IF s = <<>> THEN <<>>
    ELSE IF Head(s) = "/" THEN <<"-">> \o Tail(s)
    ELSE <<Head(s)>> \o ReplaceFirstSlash(Tail(s))

normalizeBranchName_FirstOnly(branch) == ToLowerCase(ReplaceFirstSlash(branch))

normalizeBranchName(branch) == ToLowerCase(ReplaceAllSlash(branch))

isProduction_IgnoreCase(branch, productionBranch) ==
    ToLowerCase(branch) = ToLowerCase(productionBranch)

isProduction(branch, productionBranch) == branch = productionBranch

getWorkerName_AlwaysPrefix(baseName, branch, productionBranch) ==
    normalizeBranchName(branch) \o <<"-">> \o baseName

getWorkerName_NormalizedMatch(baseName, branch, productionBranch) ==
    IF normalizeBranchName(branch) = normalizeBranchName(productionBranch)
    THEN baseName
    ELSE normalizeBranchName(branch) \o <<"-">> \o baseName

getWorkerName(baseName, branch, productionBranch) ==
    IF isProduction(branch, productionBranch)
    THEN baseName
    ELSE normalizeBranchName(branch) \o <<"-">> \o baseName

----------------------------------------------------------------------------
(* Inputs of a run *)

ProjectNames == { <<"m","y">>, <<"a","p","i">> }

AllowRecreateEnvs == {"true", "false", "TRUE"}

AllowRecreateJson == {"bool:true", "bool:false", "str:true", "undefined"}

\* which of the required inputs is missing; "none" when all are set
MissingInputs == {"none", "CLOUDFLARE_API_TOKEN", "CLOUDFLARE_ACCOUNT_ID", "CONFIG_PATH"}

DeployWorkerEnvs == {"true", "false", "unset"}

\* BRANCH; the empty string stands for an unset or empty variable
BranchEnvs == { <<>>, <<"M","a","i","n">>, <<"f","/","X">> }

ProductionBranches == { <<"m","a","i","n">>, <<"d","e","v">> }

\* an optional JSON field
Undefined == [defined |-> FALSE, value |-> <<>>]

Some(v) == [defined |-> TRUE, value |-> v]

NpmRunBuild == <<"n","p","m"," ","r","u","n"," ","b","u","i","l","d">>

Dist == <<"d","i","s","t">>

Frontend == <<"f","r","o","n","t","e","n","d">>

\* config.build: absent, or an object whose three fields are each absent,
\* the empty string or a path
NoBuild == [defined |-> FALSE, command |-> Undefined, output |-> Undefined, root |-> Undefined]

BuildConfigs ==
    {NoBuild} \cup
    [defined : {TRUE},
     command : {Undefined, Some(<<>>), Some(NpmRunBuild)},
     output : {Undefined, Some(<<>>), Some(Dist)},
     root : {Undefined, Some(<<>>), Some(Frontend)}]

\* config.preview: absent, or an object with optional pattern arrays
NoPreview == [defined |-> FALSE, branches |-> Undefined, exclude |-> Undefined]

PreviewConfigs ==
    {NoPreview} \cup
    [defined : {TRUE},
     branches : {Undefined, Some(<<>>), Some(<<"*">>), Some(<<"develop", "staging">>)},
     exclude : {Undefined, Some(<<>>), Some(<<"dependabot/*">>)}]

\* config.repo
Repo == [owner |-> <<"o","r","g">>, name |-> <<"r","e","p","o">>]

\* the build and preview sections of the runs of main
MainBuild == [defined |-> TRUE, command |-> Some(NpmRunBuild), output |-> Some(Dist),
              root |-> Some(<<>>)]

NoWorkerConfig ==
    [present |-> FALSE, name |-> <<>>, deploy_previews |-> "undefined",
     build_command |-> FALSE]

\* worker.name of the tests
MyWorker == <<"m","y","-","w","o","r","k","e","r">>

WorkerConfigs ==
    {NoWorkerConfig} \cup
    [present : {TRUE}, name : {MyWorker},
     deploy_previews : {"bool:true", "bool:false", "undefined"},
     build_command : BOOLEAN]

\* the account's workers.dev subdomain
AccountSubdomain == <<"a","c","c","t">>

\* the subdomains subdomains.get may return
WorkerSubdomains == {AccountSubdomain, <<"m","y","a","c","c","o","u","n","t">>}

NoSubdomainInfo == [subdomain |-> <<>>]

NoWorkerResult == [published |-> FALSE, workerName |-> <<>>, workerUrl |-> <<>>]

SourceTypes == {"github", "direct_upload", "null", "undefined"}

\* statuses of remote failures other than not-found; 0 is an error without status
OtherStatuses == {0, 403, 500}

NoError == [status |-> 0, op |-> "none"]

NoSubdomain == <<>>

\* the subdomains the platform may assign to project n
SubdomainsOf(n) == { n \o PagesDomain, <<"x","-">> \o n \o PagesDomain }

Absent == [present |-> FALSE, source |-> "undefined",
           hasSubdomain |-> FALSE, subdomain |-> NoSubdomain]

RecordsOf(n) ==
    { [present |-> TRUE, source |-> t, hasSubdomain |-> TRUE, subdomain |-> d] :
        t \in SourceTypes, d \in SubdomainsOf(n) }
    \cup
    { [present |-> TRUE, source |-> t, hasSubdomain |-> FALSE, subdomain |-> NoSubdomain] :
        t \in SourceTypes }

----------------------------------------------------------------------------
(* main: inputs and allowRecreate *)

AllowRecreateOf_Truthy(e, c) ==
    \/ e.ALLOW_RECREATE = "true"
    \/ c.allow_recreate \notin {"bool:false", "undefined"}

AllowRecreateOf(e, c) ==
    \/ e.ALLOW_RECREATE = "true"
    \/ c.allow_recreate = "bool:true"

InputsMissing(e) == e.missing # "none"

----------------------------------------------------------------------------
(* syncPages: decisions *)

IsNotFound_Any(err) == TRUE

IsNotFound(err) == err.status = NotFound

HasGitHubSource_Never(project) == FALSE

HasGitHubSource(project) == project.source = "github"

PagesPath_NoGate(existing, allow) ==
    IF existing.present
    THEN IF ~HasGitHubSource(existing) THEN "recreate" ELSE "edit"
    ELSE "create"

PagesPath_CreateOnly(existing, allow) ==
    IF existing.present
    THEN IF ~HasGitHubSource(existing)
         THEN IF ~allow THEN "abort" ELSE "create"
         ELSE "edit"
    ELSE "create"

PagesPath_AbsentEdit(existing, allow) ==
    IF existing.present
    THEN IF ~HasGitHubSource(existing)
         THEN IF ~allow THEN "abort" ELSE "recreate"
         ELSE "edit"
    ELSE "edit"

\* the branch of syncPages taken after the lookup
PagesPath(existing, allow) ==
    IF existing.present
    THEN IF ~HasGitHubSource(existing)
         THEN IF ~allow THEN "abort" ELSE "recreate"
         ELSE "edit"
    ELSE "create"

PagesUrlOf_NoScheme(name) == name \o PagesDomain

PagesUrlOf(name) == HttpsPrefix \o name \o PagesDomain

\* a || b on an optional string: the empty string is falsy
OrString(a, b) == IF a.defined /\ a.value # <<>> THEN a.value ELSE b

\* a || b on an optional array: every array is truthy
OrArray(a, b) == IF a.defined THEN a.value ELSE b

SourceConfigOf_NoDefaultPatterns(c) ==
    [type |-> "github",
     config |-> [owner |-> c.repo.owner,
                 repo_name |-> c.repo.name,
                 production_branch |-> c.production_branch,
                 deployments_enabled |-> TRUE,
                 production_deployments_enabled |-> TRUE,
                 preview_deployment_setting |-> "all",
                 preview_branch_includes |-> c.preview.branches.value,
                 preview_branch_excludes |-> c.preview.exclude.value]]

\* sourceConfig
SourceConfigOf(c) ==
    [type |-> "github",
     config |-> [owner |-> c.repo.owner,
                 repo_name |-> c.repo.name,
                 production_branch |-> c.production_branch,
                 deployments_enabled |-> TRUE,
                 production_deployments_enabled |-> TRUE,
                 preview_deployment_setting |-> "all",
                 preview_branch_includes |-> OrArray(c.preview.branches, <<"*">>),
                 preview_branch_excludes |-> OrArray(c.preview.exclude, <<>>)]]

BuildConfigOf_NoDirDefault(c) ==
    [build_command |-> OrString(c.build.command, <<>>),
     destination_dir |-> OrString(c.build.output, <<>>),
     root_dir |-> OrString(c.build.root, <<>>)]

\* buildConfig
BuildConfigOf(c) ==
    [build_command |-> OrString(c.build.command, <<>>),
     destination_dir |-> OrString(c.build.output, <<".">>),
     root_dir |-> OrString(c.build.root, <<>>)]

NoPayload == [kind |-> "none"]

\* the body of projects.create
CreatePayload(c) ==
    [kind |-> "create",
     name |-> c.name,
     production_branch |-> c.production_branch,
     source |-> SourceConfigOf(c),
     build_config |-> BuildConfigOf(c)]

\* the body of projects.edit
EditPayload(c) ==
    [kind |-> "edit",
     production_branch |-> c.production_branch,
     source |-> SourceConfigOf(c),
     build_config |-> BuildConfigOf(c),
     deployment_configs |-> [preview |-> "{}", production |-> "{}"]]

\* what a call is in short: the operation, the name it addresses, the source type it sends
Call(op, name, source) == [op |-> op, name |-> name, source |-> source]

\* a logged call with the body it sends
Request(op, name, source, payload) ==
    [op |-> op, name |-> name, source |-> source, payload |-> payload]

Brief(c) == Call(c.op, c.name, c.source)

\* setOutput: one invocation; the line is appended only when GITHUB_OUTPUT is set
SetOutput(out, e, name, value) ==
    Append(out, [name |-> name, value |-> value, written |-> e.GITHUB_OUTPUT])

----------------------------------------------------------------------------
(* Initial states *)

Envs ==
    [ALLOW_RECREATE : AllowRecreateEnvs, DEPLOY_WORKER : DeployWorkerEnvs,
     BRANCH : BranchEnvs, missing : MissingInputs, GITHUB_OUTPUT : BOOLEAN]

Configs ==
    [name : ProjectNames, allow_recreate : AllowRecreateJson,
     production_branch : ProductionBranches, worker : WorkerConfigs,
     repo : {Repo}, build : {MainBuild}, preview : {NoPreview}]

\* the environment and configuration of the specifications that run no action
IdleEnv ==
    [ALLOW_RECREATE |-> "false", DEPLOY_WORKER |-> "true", BRANCH |-> <<>>,
     missing |-> "none", GITHUB_OUTPUT |-> FALSE]

IdleConfig ==
    [name |-> <<"a","p","i">>, allow_recreate |-> "undefined",
     production_branch |-> DefaultBranch, worker |-> NoWorkerConfig,
     repo |-> Repo, build |-> NoBuild, preview |-> NoPreview]

\* the records a project can have on the platform before the run
InitialRemotes(n) ==
    {Absent} \cup
    {r \in RecordsOf(n) : r.source = "github" \/ r.subdomain = n \o PagesDomain}

FnIdle ==
    /\ fnPc = "idle"
    /\ fnIn = [baseName |-> <<>>, branch |-> <<>>, productionBranch |-> <<>>]
    /\ fnOut = <<>>

\* the state of a run that has done nothing yet
RunState ==
    /\ existingProject = Absent
    /\ calls = <<>>
    /\ thrown = NoError
    /\ raised = <<>>
    /\ pagesUrl = <<>>
    /\ outputs = <<>>
    /\ exitCode = 0
    /\ workerName = <<>>
    /\ workerResult = NoWorkerResult
    /\ scripts = {}
    /\ subdomainInfo = NoSubdomainInfo

\* no second run
NoPeer ==
    [pc |-> "none", allowRecreate |-> FALSE, existingProject |-> Absent,
     thrown |-> NoError, pagesUrl |-> <<>>, exitCode |-> 0]

\* a single run, the first one
Alone ==
    /\ history = <<>>
    /\ peer = NoPeer

RunStart ==
    /\ pc = "main"
    /\ allowRecreate = FALSE
    /\ RunState
    /\ Alone

Init ==
    /\ env \in Envs
    /\ config \in Configs
    /\ remote \in InitialRemotes(config.name)
    /\ RunStart
    /\ FnIdle

----------------------------------------------------------------------------
(* main *)

Throw(err) ==
    /\ raised' = Append(raised, err)
    /\ thrown' = err
    /\ pc' = "main_catch"

Exit1 ==
    /\ exitCode' = ExitFailure
    /\ pc' = "exited"

\* main, up to the call of syncPages
MainStart ==
    /\ pc = "main"
    /\ IF InputsMissing(env)
       THEN /\ Exit1
            /\ UNCHANGED allowRecreate
       ELSE /\ allowRecreate' = AllowRecreateOf(env, config)
            /\ pc' = "pages_get"
            /\ UNCHANGED exitCode
    /\ UNCHANGED <<env, config, history, peer, remote, existingProject, calls, thrown, raised,
                   pagesUrl, outputs, workerName, workerResult, subdomainInfo, scripts>>
    /\ UNCHANGED fnVars

\* main().catch
MainCatch ==
    /\ pc = "main_catch"
    /\ Exit1
    /\ UNCHANGED <<env, config, history, peer, remote, allowRecreate, existingProject, calls,
                   thrown, raised, pagesUrl, outputs, workerName, workerResult, subdomainInfo,
                   scripts>>
    /\ UNCHANGED fnVars

----------------------------------------------------------------------------
(* syncPages *)

\* the initial client.pages.projects.get and its catch
PagesGet ==
    /\ pc = "pages_get"
    /\ calls' = Append(calls, Request("get", config.name, "none", NoPayload))
    /\ \/ /\ remote.present
          /\ existingProject' = remote
          /\ pc' = "pages_decide"
          /\ UNCHANGED <<raised, thrown>>
       \/ \E err \in {[status |-> st, op |-> "get"] :
                        st \in (IF remote.present THEN {} ELSE {NotFound}) \cup OtherStatuses} :
             IF IsNotFound(err)
             THEN /\ raised' = Append(raised, err)
                  /\ pc' = "pages_decide"
                  /\ UNCHANGED <<existingProject, thrown>>
             ELSE /\ Throw(err)
                  /\ UNCHANGED existingProject
    /\ UNCHANGED <<env, config, history, peer, remote, allowRecreate, pagesUrl, outputs,
                   exitCode, workerName, workerResult, subdomainInfo, scripts>>
    /\ UNCHANGED fnVars

\* the diagnostic is printed, but syncPages returns instead of exiting
PagesAbort_Returns ==
    /\ pc = "pages_decide"
    /\ PagesPath(existingProject, allowRecreate) = "abort"
    /\ pc' = "worker_gate"
    /\ UNCHANGED <<env, config, history, peer, remote, allowRecreate, existingProject, calls,
                   thrown, raised, pagesUrl, outputs, exitCode, workerName,
                   workerResult, subdomainInfo, scripts>>
    /\ UNCHANGED fnVars

\* process.exit(1) for a project that may not be recreated
PagesAbort ==
    /\ pc = "pages_decide"
    /\ PagesPath(existingProject, allowRecreate) = "abort"
    /\ Exit1
    /\ UNCHANGED <<env, config, history, peer, remote, allowRecreate, existingProject, calls,
                   thrown, raised, pagesUrl, outputs, workerName, workerResult, subdomainInfo,
                   scripts>>
    /\ UNCHANGED fnVars

\* a mutating call fails: the platform raises, syncPages does not catch
CallFails(op) ==
    \E st \in OtherStatuses : Throw([status |-> st, op |-> op])

PagesDelete_Swallows ==
    /\ pc = "pages_decide"
    /\ PagesPath(existingProject, allowRecreate) = "recreate"
    /\ calls' = Append(calls, Request("delete", config.name, "none", NoPayload))
    /\ pc' = "pages_recreate"
    /\ \/ /\ remote.present
          /\ remote' = Absent
          /\ UNCHANGED <<raised, thrown>>
       \/ \E st \in OtherStatuses :
             /\ raised' = Append(raised, [status |-> st, op |-> "delete"])
             /\ UNCHANGED <<remote, thrown>>
    /\ UNCHANGED <<env, config, history, peer, allowRecreate, existingProject, pagesUrl,
                   outputs, exitCode, workerName, workerResult, subdomainInfo, scripts>>
    /\ UNCHANGED fnVars

\* client.pages.projects.delete
PagesDelete ==
    /\ pc = "pages_decide"
    /\ PagesPath(existingProject, allowRecreate) = "recreate"
    /\ calls' = Append(calls, Request("delete", config.name, "none", NoPayload))
    /\ \/ IF remote.present
          THEN /\ remote' = Absent
               /\ pc' = "pages_recreate"
               /\ UNCHANGED <<raised, thrown>>
          ELSE /\ Throw([status |-> NotFound, op |-> "delete"])
               /\ UNCHANGED remote
       \/ /\ CallFails("delete")
          /\ UNCHANGED remote
    /\ UNCHANGED <<env, config, history, peer, allowRecreate, existingProject, pagesUrl,
                   outputs, exitCode, workerName, workerResult, subdomainInfo, scripts>>
    /\ UNCHANGED fnVars

\* client.pages.projects.create with source: sourceConfig
CreateCall ==
    /\ calls' = Append(calls, Request("create", CreatePayload(config).name,
                                    CreatePayload(config).source.type,
                                    CreatePayload(config)))
    /\ \/ IF ~remote.present
          THEN /\ \E r \in RecordsOf(config.name) :
                     /\ r.source = "github"
                     /\ remote' = r
               /\ pc' = "pages_finish"
               /\ UNCHANGED <<raised, thrown>>
          ELSE /\ Throw([status |-> 409, op |-> "create"])
               /\ UNCHANGED remote
       \/ /\ CallFails("create")
          /\ UNCHANGED remote
    /\ UNCHANGED <<env, config, history, peer, allowRecreate, existingProject, pagesUrl,
                   outputs, exitCode, workerName, workerResult, subdomainInfo, scripts>>
    /\ UNCHANGED fnVars

\* the create that follows the delete
PagesRecreate ==
    /\ pc = "pages_recreate"
    /\ CreateCall

\* the create of a project that does not exist
PagesCreate ==
    /\ pc = "pages_decide"
    /\ PagesPath(existingProject, allowRecreate) = "create"
    /\ CreateCall

\* client.pages.projects.edit
PagesEdit ==
    /\ pc = "pages_decide"
    /\ PagesPath(existingProject, allowRecreate) = "edit"
    /\ calls' = Append(calls, Request("edit", config.name,
                                    EditPayload(config).source.type,
                                    EditPayload(config)))
    /\ \/ IF remote.present
          THEN /\ remote' = [remote EXCEPT !.source = "github"]
               /\ pc' = "pages_finish"
               /\ UNCHANGED <<raised, thrown>>
          ELSE /\ Throw([status |-> NotFound, op |-> "edit"])
               /\ UNCHANGED remote
       \/ /\ CallFails("edit")
          /\ UNCHANGED remote
    /\ UNCHANGED <<env, config, history, peer, allowRecreate, existingProject, pagesUrl,
                   outputs, exitCode, workerName, workerResult, subdomainInfo, scripts>>
    /\ UNCHANGED fnVars

\* pagesUrl, setOutput and return
PagesFinish ==
    /\ pc = "pages_finish"
    /\ pagesUrl' = PagesUrlOf(config.name)
    /\ outputs' = SetOutput(outputs, env, "pages-url", PagesUrlOf(config.name))
    /\ pc' = "worker_gate"
    /\ UNCHANGED <<env, config, history, peer, remote, allowRecreate, existingProject, calls,
                   thrown, raised, exitCode, workerName, workerResult, subdomainInfo, scripts>>
    /\ UNCHANGED fnVars

----------------------------------------------------------------------------
(* main: the worker gate, syncWorker, the summary *)

DeployWorkerOf_Truthy(e) == e.DEPLOY_WORKER # "unset"

DeployWorkerOf(e) == e.DEPLOY_WORKER # "false"

BranchOf(e) == IF e.BRANCH = <<>> THEN DefaultBranch ELSE e.BRANCH

NoWorker_Never(c) == FALSE

\* if (!workerConfig)
NoWorker(c) == ~c.worker.present

PreviewSkipped_Falsy(c, branch) ==
    /\ ~isProduction(branch, c.production_branch)
    /\ c.worker.deploy_previews \in {"bool:false", "undefined"}

\* preview deployments of the worker are switched off for this branch
PreviewSkipped(c, branch) ==
    /\ ~isProduction(branch, c.production_branch)
    /\ c.worker.deploy_previews = "bool:false"

BaseNameOf_WorkerName(c) == c.worker.name

\* the base name syncWorker passes to getWorkerName
BaseNameOf(c) == c.name

WorkerUrlOf_NoSubdomain(name, subdomain) ==
    HttpsPrefix \o name \o WorkersDomain

WorkerUrlOf(name, subdomain) ==
    HttpsPrefix \o name \o <<".">> \o subdomain \o WorkersDomain

\* if (deployWorker && config.worker)
MainWorkerGate ==
    /\ pc = "worker_gate"
    /\ pc' = IF DeployWorkerOf(env) /\ config.worker.present
             THEN "worker_start" ELSE "summary"
    /\ UNCHANGED <<env, config, history, peer, remote, allowRecreate, existingProject, calls,
                   thrown, raised, pagesUrl, outputs, exitCode, workerName,
                   workerResult, subdomainInfo, scripts>>
    /\ UNCHANGED fnVars

\* syncWorker, up to the build: the two skips and the worker name
WorkerStart ==
    /\ pc = "worker_start"
    /\ IF NoWorker(config) \/ PreviewSkipped(config, BranchOf(env))
       THEN /\ pc' = "summary"
            /\ UNCHANGED workerName
       ELSE /\ workerName' = getWorkerName(BaseNameOf(config), BranchOf(env),
                                           config.production_branch)
            /\ pc' = IF config.worker.build_command
                     THEN "worker_build" ELSE "worker_read"
    /\ UNCHANGED <<env, config, history, peer, remote, allowRecreate, existingProject, calls,
                   thrown, raised, pagesUrl, outputs, exitCode, workerResult, subdomainInfo,
                   scripts>>
    /\ UNCHANGED fnVars

WorkerBuild_Continues ==
    /\ pc = "worker_build"
    /\ calls' = Append(calls, Request("build", <<>>, "none", NoPayload))
    /\ pc' = "worker_read"
    /\ \/ UNCHANGED <<raised, thrown>>
       \/ /\ raised' = Append(raised, [status |-> 0, op |-> "build"])
          /\ UNCHANGED thrown
    /\ UNCHANGED <<env, config, history, peer, remote, allowRecreate, existingProject,
                   pagesUrl, outputs, exitCode, workerName, workerResult, subdomainInfo,
                   scripts>>
    /\ UNCHANGED fnVars

\* runBuild: execSync of the build command
WorkerBuild ==
    /\ pc = "worker_build"
    /\ calls' = Append(calls, Request("build", <<>>, "none", NoPayload))
    /\ \/ /\ pc' = "worker_read"
          /\ UNCHANGED <<raised, thrown>>
       \/ Throw([status |-> 0, op |-> "build"])
    /\ UNCHANGED <<env, config, history, peer, remote, allowRecreate, existingProject,
                   pagesUrl, outputs, exitCode, workerName, workerResult, subdomainInfo,
                   scripts>>
    /\ UNCHANGED fnVars

\* readFileSync of the entry point
WorkerRead ==
    /\ pc = "worker_read"
    /\ calls' = Append(calls, Request("readFile", <<>>, "none", NoPayload))
    /\ \/ /\ pc' = "worker_upload"
          /\ UNCHANGED <<raised, thrown>>
       \/ Throw([status |-> 0, op |-> "readFile"])
    /\ UNCHANGED <<env, config, history, peer, remote, allowRecreate, existingProject,
                   pagesUrl, outputs, exitCode, workerName, workerResult, subdomainInfo,
                   scripts>>
    /\ UNCHANGED fnVars

\* client.workers.scripts.update
WorkerUpload ==
    /\ pc = "worker_upload"
    /\ calls' = Append(calls, Request("scripts.update", workerName, "none", NoPayload))
    /\ \/ /\ scripts' = scripts \cup {workerName}
          /\ pc' = "worker_subdomain"
          /\ UNCHANGED <<raised, thrown>>
       \/ /\ CallFails("scripts.update")
          /\ UNCHANGED scripts
    /\ UNCHANGED <<env, config, history, peer, remote, allowRecreate, existingProject,
                   pagesUrl, outputs, exitCode, workerName, workerResult, subdomainInfo>>
    /\ UNCHANGED fnVars

\* client.workers.subdomains.get, the two outputs and the return
WorkerSubdomain ==
    /\ pc = "worker_subdomain"
    /\ calls' = Append(calls, Request("subdomains.get", <<>>, "none", NoPayload))
    /\ \/ \E sub \in WorkerSubdomains :
             LET url == WorkerUrlOf(workerName, sub)
             IN  /\ subdomainInfo' = [subdomain |-> sub]
                 /\ outputs' = SetOutput(SetOutput(outputs, env, "worker-url", url),
                                         env, "worker-name", workerName)
                 /\ workerResult' = [published |-> TRUE, workerName |-> workerName,
                                     workerUrl |-> url]
                 /\ pc' = "summary"
                 /\ UNCHANGED <<raised, thrown>>
       \/ /\ CallFails("subdomains.get")
          /\ UNCHANGED <<outputs, workerResult, subdomainInfo>>
    /\ UNCHANGED <<env, config, history, peer, remote, allowRecreate, existingProject,
                   pagesUrl, exitCode, workerName, scripts>>
    /\ UNCHANGED fnVars

\* the deployment summary; main returns
MainSummary ==
    /\ pc = "summary"
    /\ pc' = "done"
    /\ UNCHANGED <<env, config, history, peer, remote, allowRecreate, existingProject, calls,
                   thrown, raised, pagesUrl, outputs, exitCode, workerName,
                   workerResult, subdomainInfo, scripts>>
    /\ UNCHANGED fnVars

----------------------------------------------------------------------------
(* Specification of one run of the action *)

Next ==
    \/ MainStart
    \/ PagesGet
    \/ PagesAbort
    \/ PagesDelete
    \/ PagesRecreate
    \/ PagesCreate
    \/ PagesEdit
    \/ PagesFinish
    \/ MainWorkerGate
    \/ WorkerStart
    \/ WorkerBuild
    \/ WorkerRead
    \/ WorkerUpload
    \/ WorkerSubdomain
    \/ MainSummary
    \/ MainCatch

Spec == Init /\ [][Next]_vars

----------------------------------------------------------------------------
(* Specification of the naming functions over bounded inputs *)

BranchChars == {"a", "A", "/", "-"}

FeatureAuth == <<"f","e","a","t","u","r","e","/","a","u","t","h">>

FeatureJiraAuth == <<"f","e","a","t","u","r","e","/","J","I","R","A","-","1","2","3","/","a","u","t","h">>

ApiName == <<"a","p","i">>

WorkerBase == <<"w","o","r","k","e","r">>

FnBranches ==
    SeqsUpTo(BranchChars, MaxBranchLen)
    \cup {DefaultBranch, <<"M","a","i","n">>, FeatureAuth, FeatureJiraAuth}

FnBases == {ApiName, WorkerBase}

InitNames ==
    /\ env = IdleEnv
    /\ config = IdleConfig
    /\ remote = Absent
    /\ RunStart
    /\ fnPc = "ready"
    /\ fnIn \in [baseName : FnBases, branch : FnBranches, productionBranch : FnBranches]
    /\ fnOut = <<>>

\* one evaluation of getWorkerName(baseName, branch, productionBranch)
ApplyGetWorkerName ==
    /\ fnPc = "ready"
    /\ fnOut' = getWorkerName(fnIn.baseName, fnIn.branch, fnIn.productionBranch)
    /\ fnPc' = "applied"
    /\ UNCHANGED fnIn
    /\ UNCHANGED mainVars

NextNames == ApplyGetWorkerName

SpecNames == InitNames /\ [][NextNames]_vars

----------------------------------------------------------------------------
(* Observations on a run *)

IsPagesCall(c) == c.op \in {"get", "create", "edit", "delete"}

PagesCalls ==
    LET selected == SelectSeq(calls, IsPagesCall)
    IN  [i \in 1..Len(selected) |-> Brief(selected[i])]

Invoked(op) == \E i \in 1..Len(calls) : calls[i].op = op

GetCall == Call("get", config.name, "none")

DeleteCall == Call("delete", config.name, "none")

CreateGithubCall == Call("create", config.name, "github")

EditCall == Call("edit", config.name, "github")

IsPrefix(p, q) == Len(p) <= Len(q) /\ \A i \in 1..Len(p) : p[i] = q[i]

\* the initial lookup returned a project whose source type is not 'github'
LookupNonGithub == existingProject.present /\ existingProject.source # "github"

\* the initial lookup returned a project whose source type is 'github'
LookupGithub == existingProject.present /\ existingProject.source = "github"

\* the initial lookup failed with status 404
LookupNotFound ==
    /\ raised # <<>>
    /\ raised[1].op = "get"
    /\ raised[1].status = 404

\* the initial lookup failed with another error
LookupFailed ==
    /\ raised # <<>>
    /\ raised[1].op = "get"
    /\ raised[1].status # 404

\* syncPages has returned
PagesReturned == pagesUrl # <<>>

----------------------------------------------------------------------------
(* Claims on syncPages and main *)

\* C1: projects.delete is invoked only if allowRecreate is true and the
\* initial lookup returned an existing project whose source type is not
\* 'github'; allowRecreate is true only if ALLOW_RECREATE is exactly 'true'
\* or config.allow_recreate is exactly true.
C1_DeleteOnlyWhenAuthorized ==
    /\ Invoked("delete") =>
          /\ allowRecreate
          /\ LookupNonGithub
    /\ allowRecreate =>
          \/ env.ALLOW_RECREATE = "true"
          \/ config.allow_recreate = "bool:true"

C1_Witness ==
    /\ Invoked("delete")
    /\ env.ALLOW_RECREATE = "TRUE"
    /\ config.allow_recreate = "bool:true"

\* C2: an existing project that is not github-sourced (null and missing
\* source included) and allowRecreate false: the process exits with status 1
\* and none of delete, create, edit is invoked.
C2_AbortWithoutMutation ==
    (LookupNonGithub /\ ~allowRecreate) =>
        /\ PagesCalls = <<GetCall>>
        /\ pc \in {"pages_decide", "exited"}
        /\ pc = "exited" => exitCode = 1
        /\ ~PagesReturned

C2_Witness ==
    /\ LookupNonGithub
    /\ existingProject.source \in {"null", "undefined"}
    /\ ~allowRecreate
    /\ pc = "exited"
    /\ exitCode = 1

\* C3: an existing project that is not github-sourced and allowRecreate
\* true: delete is invoked with the project name and only afterwards create
\* with a github source; create never precedes delete, edit is never invoked.
C3_DeleteThenCreate ==
    (LookupNonGithub /\ allowRecreate) =>
        /\ IsPrefix(PagesCalls, <<GetCall, DeleteCall, CreateGithubCall>>)
        /\ pc # "pages_decide" => Len(PagesCalls) >= 2
        /\ PagesReturned => Len(PagesCalls) = 3

C3_Witness ==
    /\ LookupNonGithub
    /\ allowRecreate
    /\ PagesReturned
    /\ PagesCalls = <<GetCall, DeleteCall, CreateGithubCall>>

\* C4: the initial lookup reports 404: create is invoked exactly once with
\* name = config.name and a github source; delete and edit are never
\* invoked, whatever allowRecreate is.
C4_CreateWhenAbsent ==
    LookupNotFound =>
        IF pc = "pages_decide"
        THEN PagesCalls = <<GetCall>>
        ELSE PagesCalls = <<GetCall, CreateGithubCall>>

C4_Witness ==
    /\ LookupNotFound
    /\ allowRecreate
    /\ PagesReturned
    /\ PagesCalls = <<GetCall, CreateGithubCall>>

\* C5: the initial lookup returned a github-sourced project: edit is invoked
\* exactly once; delete and create are never invoked, whatever allowRecreate
\* is.
C5_EditWhenGithub ==
    LookupGithub =>
        IF pc = "pages_decide"
        THEN PagesCalls = <<GetCall>>
        ELSE PagesCalls = <<GetCall, EditCall>>

C5_Witness ==
    /\ LookupGithub
    /\ allowRecreate
    /\ PagesReturned
    /\ PagesCalls = <<GetCall, EditCall>>

\* C6: the initial get fails with a status other than 404: that same error
\* reaches the caller unchanged, none of create, edit, delete is invoked and
\* the lookup is not retried.
C6_LookupErrorPropagates ==
    LookupFailed =>
        /\ thrown = raised[1]
        /\ Len(calls) = 1
        /\ PagesCalls = <<GetCall>>
        /\ pc \in {"main_catch", "exited"}
        /\ ~PagesReturned

C6_Witness ==
    /\ LookupFailed
    /\ raised[1].status = 500
    /\ thrown = raised[1]
    /\ pc = "main_catch"

\* C7: after a successful mutating call syncPages returns pagesUrl =
\* 'https://' + the subdomain of the post-mutation project record.
C7_UrlFromRemoteSubdomain ==
    (PagesReturned /\ remote.hasSubdomain) =>
        pagesUrl = HttpsPrefix \o remote.subdomain

\* C8: the post-mutation record carries no subdomain field: syncPages
\* returns pagesUrl = 'https://' + config.name + '.pages.dev'.
C8_FallbackUrl ==
    (PagesReturned /\ ~remote.hasSubdomain) =>
        pagesUrl = <<"h","t","t","p","s",":","/","/">> \o config.name
                     \o <<".","p","a","g","e","s",".","d","e","v">>

C8_Witness ==
    /\ PagesReturned
    /\ remote.present
    /\ ~remote.hasSubdomain
    /\ Invoked("create")

----------------------------------------------------------------------------
(* Claims on getWorkerName *)

\* C9: getWorkerName(base, branch, productionBranch) is base itself, without
\* prefix, whenever branch equals productionBranch.
C9_ProductionKeepsBase ==
    (fnPc = "applied" /\ fnIn.branch = fnIn.productionBranch) =>
        fnOut = fnIn.baseName

C9_Witness ==
    /\ fnPc = "applied"
    /\ fnIn.branch = FeatureAuth
    /\ fnIn.productionBranch = FeatureAuth
    /\ fnOut = fnIn.baseName

\* the character normalization puts at a position of the branch
NormalChar(c) == IF c = "/" THEN "-" ELSE LowerOf(c)

\* C10: for a branch different from productionBranch getWorkerName is
\* normalize(branch) + '-' + base, every '/' replaced by '-' and every letter
\* lower-cased; ('api','feature/auth','main') gives 'feature-auth-api' and
\* ('worker','feature/JIRA-123/auth','main') 'feature-jira-123-auth-worker'.
C10_PreviewPrefixed ==
    (fnPc = "applied" /\ fnIn.branch # fnIn.productionBranch) =>
        LET b == fnIn.branch
            n == Len(b)
        IN  /\ Len(fnOut) = n + 1 + Len(fnIn.baseName)
            /\ \A i \in 1..n : fnOut[i] = NormalChar(b[i])
            /\ fnOut[n + 1] = "-"
            /\ \A j \in 1..Len(fnIn.baseName) : fnOut[n + 1 + j] = fnIn.baseName[j]
            /\ (fnIn.baseName = ApiName /\ b = FeatureAuth) =>
                   fnOut = <<"f","e","a","t","u","r","e","-","a","u","t","h","-","a","p","i">>
            /\ (fnIn.baseName = WorkerBase /\ b = FeatureJiraAuth) =>
                   fnOut = <<"f","e","a","t","u","r","e","-","j","i","r","a","-","1","2","3","-","a","u","t","h","-","w","o","r","k","e","r">>

C10_Witness ==
    /\ fnPc = "applied"
    /\ fnIn = [baseName |-> WorkerBase, branch |-> FeatureJiraAuth,
               productionBranch |-> DefaultBranch]
    /\ fnOut = <<"f","e","a","t","u","r","e","-","j","i","r","a","-","1","2","3","-","a","u","t","h","-","w","o","r","k","e","r">>

----------------------------------------------------------------------------
(* Specification of getWorkerName on two branches of one project *)

PairProductionBranches == {DefaultBranch, <<"a">>, <<"a","/","A">>}

InitPairs ==
    /\ env = IdleEnv
    /\ config = IdleConfig
    /\ remote = Absent
    /\ RunStart
    /\ fnPc = "ready"
    /\ fnIn \in [baseName : {ApiName}, branchA : FnBranches, branchB : FnBranches,
                 productionBranch : PairProductionBranches]
    /\ fnOut = <<>>

\* the worker names two runs of syncWorker compute for two branches
ApplyGetWorkerNamePair ==
    /\ fnPc = "ready"
    /\ fnOut' = [a |-> getWorkerName(fnIn.baseName, fnIn.branchA, fnIn.productionBranch),
                 b |-> getWorkerName(fnIn.baseName, fnIn.branchB, fnIn.productionBranch)]
    /\ fnPc' = "applied"
    /\ UNCHANGED fnIn
    /\ UNCHANGED mainVars

NextPairs == ApplyGetWorkerNamePair

SpecPairs == InitPairs /\ [][NextPairs]_vars

\* C11 as stated: for a fixed base name and production branch, distinct
\* branch strings map to distinct worker names.
C11_DistinctBranchesDistinctNames ==
    (fnPc = "applied" /\ fnIn.branchA # fnIn.branchB) => fnOut.a # fnOut.b

\* C11 amended: two distinct branches get the same worker name only if
\* neither is the production branch and they have the same normalized form
\* (they differ only in letter case or in '/' against '-').
C11_CollideOnlyByNormalization ==
    (fnPc = "applied" /\ fnIn.branchA # fnIn.branchB /\ fnOut.a = fnOut.b) =>
        /\ fnIn.branchA # fnIn.productionBranch
        /\ fnIn.branchB # fnIn.productionBranch
        /\ Len(fnIn.branchA) = Len(fnIn.branchB)
        /\ \A i \in 1..Len(fnIn.branchA) :
              NormalChar(fnIn.branchA[i]) = NormalChar(fnIn.branchB[i])

C11_Witness ==
    /\ fnPc = "applied"
    /\ fnIn.branchA = <<"a","/","A">>
    /\ fnIn.branchB = <<"A","-","a">>
    /\ fnIn.productionBranch = DefaultBranch
    /\ fnOut.a = fnOut.b

----------------------------------------------------------------------------
(* Specification of syncWorker called on its own: "summary" is the return *)
(* to the caller, "main_catch" the error propagated to the caller         *)

\* worker.name: the name of the tests, or a project's name
WorkerNames == {MyWorker} \cup ProjectNames

WorkerRunConfigs ==
    {c \in Configs : c.allow_recreate = "undefined" /\ ~c.worker.present}
    \cup
    {[c EXCEPT !.worker.name = n] :
        c \in {d \in Configs : d.allow_recreate = "undefined" /\ d.worker.present},
        n \in WorkerNames}

InitWorker ==
    /\ env \in {e \in Envs : /\ e.missing = "none"
                             /\ e.ALLOW_RECREATE = "false"
                             /\ e.DEPLOY_WORKER = "true"}
    /\ config \in WorkerRunConfigs
    /\ remote = Absent
    /\ pc = "worker_start"
    /\ allowRecreate = FALSE
    /\ RunState
    /\ Alone
    /\ FnIdle

NextWorker ==
    \/ WorkerStart
    \/ WorkerBuild
    \/ WorkerRead
    \/ WorkerUpload
    \/ WorkerSubdomain

SpecWorker == InitWorker /\ [][NextWorker]_vars

\* the worker outputs recorded so far
WorkerOutputs == SelectSeq(outputs, LAMBDA o : o.name \in {"worker-url", "worker-name"})

\* C12: config.worker absent: syncWorker returns null at once; no build, no
\* file read, no scripts.update, no subdomains.get, no worker output.
C12_NoWorkerConfigIsNoOp ==
    ~config.worker.present =>
        /\ pc \in {"worker_start", "summary"}
        /\ calls = <<>>
        /\ outputs = <<>>
        /\ workerResult = NoWorkerResult
        /\ scripts = {}
        /\ raised = <<>>
        /\ thrown = NoError

C12_Witness ==
    /\ ~config.worker.present
    /\ pc = "summary"
    /\ workerResult = NoWorkerResult

\* C13: a branch other than the production branch with deploy_previews
\* explicitly false: syncWorker returns null without error and never invokes
\* scripts.update.  With deploy_previews true or unset, and on the production
\* branch whatever deploy_previews is, syncWorker does not skip: when it
\* returns, the script has been uploaded and a result is returned.
C13_PreviewSkipOnlyWhenFalse ==
    config.worker.present =>
        IF BranchOf(env) # config.production_branch
           /\ config.worker.deploy_previews = "bool:false"
        THEN /\ pc \in {"worker_start", "summary"}
             /\ ~Invoked("scripts.update")
             /\ calls = <<>>
             /\ thrown = NoError
             /\ ~workerResult.published
        ELSE /\ pc # "worker_start" => workerName # <<>>
             /\ pc = "summary" =>
                   /\ Invoked("scripts.update")
                   /\ workerResult.published

C13_Witness ==
    /\ config.worker.present
    /\ config.worker.deploy_previews = "bool:false"
    /\ BranchOf(env) = <<"f","/","X">>
    /\ pc = "summary"
    /\ ~workerResult.published

\* C14: syncWorker has no partial success: either the script is uploaded
\* under the computed name and {workerName, workerUrl} is returned, or it
\* fails with no script upserted and no worker output written, at whatever
\* step the failure happens.
C14_NoPartialSuccess ==
    /\ workerResult.published =>
          /\ workerResult.workerName \in scripts
          /\ thrown = NoError
    /\ thrown # NoError =>
          /\ scripts = {}
          /\ WorkerOutputs = <<>>

----------------------------------------------------------------------------
(* Claims on the outputs and on the order of main *)

Produced(name) == \E i \in 1..Len(outputs) : outputs[i].name = name

IsWorkerStep(c) == c.op \in {"build", "readFile", "scripts.update", "subdomains.get"}

\* C15: pages-url is produced whenever reconciliation succeeds; worker-url
\* and worker-name are produced if and only if a worker was actually
\* published (its script upserted) in the run, and never as empty strings.
C15_OutputsMatchPublication ==
    /\ PagesReturned =>
          \E i \in 1..Len(outputs) :
              outputs[i].name = "pages-url" /\ outputs[i].value = pagesUrl
    /\ \A i \in 1..Len(outputs) : outputs[i].value # <<>>
    /\ Produced("worker-url") <=> Produced("worker-name")
    /\ pc \in {"done", "exited"} => (Produced("worker-url") <=> scripts # {})

\* C16: within one run scripts.update is invoked only after syncPages has
\* returned, so after the lookup and the mutating call; when syncPages exits
\* with status 1 or fails, scripts.update is never invoked.
C16_PagesBeforeWorker ==
    /\ (\E j \in 1..Len(calls) : IsWorkerStep(calls[j])) =>
          /\ PagesReturned
          /\ Len(PagesCalls) >= 2
          /\ \A i, j \in 1..Len(calls) :
                (IsPagesCall(calls[i]) /\ IsWorkerStep(calls[j])) => i < j
    /\ ~PagesReturned =>
          /\ ~Invoked("scripts.update")
          /\ scripts = {}

C16_Witness ==
    /\ Invoked("scripts.update")
    /\ PagesReturned
    /\ PagesCalls = <<GetCall, DeleteCall, CreateGithubCall>>

----------------------------------------------------------------------------
(* buildBindings *)

MaxEntries == 2

\* JSON scalars: a string or a number
Str(s) == [t |-> "str", s |-> s, n |-> 0]

Num(n) == [t |-> "num", s |-> <<>>, n |-> n]

DigitChars == <<"0","1","2","3","4","5","6","7","8","9">>

\* Number.prototype.toString of a non-negative integer
RECURSIVE DecimalOf(_)
DecimalOf(n) ==
    IF n < 10 THEN <<DigitChars[n + 1]>>
    ELSE DecimalOf(n \div 10) \o <<DigitChars[(n % 10) + 1]>>

\* String(value)
StringOf(v) == IF v.t = "str" THEN v.s ELSE DecimalOf(v.n)

\* bindingsConfig?.field
FieldOf(bc, field) == IF bc.kind = "object" THEN bc[field] ELSE Undefined

\* the record pushed for one entry of a category
BindingOf(category, item) ==
    CASE category = "environment_variables" ->
            [name |-> item.name, type |-> "plain_text", text |-> StringOf(item.value)]
      [] category = "secrets" ->
            [name |-> item.name, type |-> "secret_text", text |-> StringOf(item.value)]
      [] category = "kv_namespaces" ->
            [name |-> item.binding, type |-> "kv_namespace", namespace_id |-> item.id]
      [] category = "d1_databases" ->
            [name |-> item.binding, type |-> "d1", id |-> item.database_id]
      [] category = "r2_buckets" ->
            [name |-> item.binding, type |-> "r2_bucket", bucket_name |-> item.bucket_name]

\* one for-of loop of bindings.push
RECURSIVE PushEach(_, _, _)
PushEach(bindings, category, items) ==
    IF items = <<>> THEN bindings
    ELSE PushEach(Append(bindings, BindingOf(category, Head(items))), category, Tail(items))

\* if (bindingsConfig?.field) { for (...) bindings.push(...) }
PushField(bindings, bc, field) ==
    IF FieldOf(bc, field).defined
    THEN PushEach(bindings, field, FieldOf(bc, field).value)
    ELSE bindings

\* if (secrets) { for (...) bindings.push(...) }
PushSecrets(bindings, secrets) ==
    IF secrets.kind = "object"
    THEN PushEach(bindings, "secrets", secrets.entries)
    ELSE bindings

buildBindings_SecretsFirst(bindingsConfig, secrets) ==
    LET b1 == PushSecrets(<<>>, secrets)
        b2 == PushField(b1, bindingsConfig, "environment_variables")
        b3 == PushField(b2, bindingsConfig, "kv_namespaces")
        b4 == PushField(b3, bindingsConfig, "d1_databases")
    IN  PushField(b4, bindingsConfig, "r2_buckets")

buildBindings(bindingsConfig, secrets) ==
    LET b1 == PushField(<<>>, bindingsConfig, "environment_variables")
        b2 == PushSecrets(b1, secrets)
        b3 == PushField(b2, bindingsConfig, "kv_namespaces")
        b4 == PushField(b3, bindingsConfig, "d1_databases")
    IN  PushField(b4, bindingsConfig, "r2_buckets")

(* Bounded inputs *)

EnvPairs == { [name |-> "API_URL", value |-> Str(<<"h","t","t","p","s",":","/","/","x">>)],
              [name |-> "PORT", value |-> Num(3000)] }

SecretPairs == { [name |-> "API_KEY", value |-> Str(<<"k">>)],
                 [name |-> "PIN", value |-> Num(7)] }

KvItems == { [binding |-> "KV_CACHE", id |-> "kv-namespace-id-1"],
             [binding |-> "KV_SESSIONS", id |-> "kv-namespace-id-2"] }

D1Items == { [binding |-> "DB", database_id |-> "d1-db-id-1"] }

R2Items == { [binding |-> "STORAGE", bucket_name |-> "my-bucket"] }

\* the entries of an object: at most MaxEntries properties, no name twice
ObjectsOf(pairs) ==
    { s \in SeqsUpTo(pairs, MaxEntries) :
        \A i, j \in 1..Len(s) : s[i].name = s[j].name => i = j }

OptionalOf(S) == {Undefined} \cup {Some(s) : s \in S}

NoBindingsConfig(kind) ==
    [kind |-> kind, environment_variables |-> Undefined, kv_namespaces |-> Undefined,
     d1_databases |-> Undefined, r2_buckets |-> Undefined]

BindingsConfigs ==
    {NoBindingsConfig("null"), NoBindingsConfig("undefined")} \cup
    [kind : {"object"},
     environment_variables : OptionalOf(ObjectsOf(EnvPairs)),
     kv_namespaces : OptionalOf(SeqsUpTo(KvItems, MaxEntries)),
     d1_databases : OptionalOf(SeqsUpTo(D1Items, MaxEntries)),
     r2_buckets : OptionalOf(SeqsUpTo(R2Items, MaxEntries))]

SecretsInputs ==
    {[kind |-> "null", entries |-> <<>>], [kind |-> "undefined", entries |-> <<>>]} \cup
    [kind : {"object"}, entries : ObjectsOf(SecretPairs)]

InitBindings ==
    /\ env = IdleEnv
    /\ config = IdleConfig
    /\ remote = Absent
    /\ RunStart
    /\ fnPc = "ready"
    /\ fnIn \in [bindingsConfig : BindingsConfigs, secrets : SecretsInputs]
    /\ fnOut = <<>>

\* one evaluation of buildBindings(bindingsConfig, secrets)
ApplyBuildBindings ==
    /\ fnPc = "ready"
    /\ fnOut' = buildBindings(fnIn.bindingsConfig, fnIn.secrets)
    /\ fnPc' = "applied"
    /\ UNCHANGED fnIn
    /\ UNCHANGED mainVars

NextBindings == ApplyBuildBindings

SpecBindings == InitBindings /\ [][NextBindings]_vars

\* the entries a category contributes: none when the input or the field is
\* null, undefined or empty
GivenEntries(field) ==
    IF fnIn.bindingsConfig.kind = "object" /\ fnIn.bindingsConfig[field].defined
    THEN fnIn.bindingsConfig[field].value
    ELSE <<>>

GivenSecrets == IF fnIn.secrets.kind = "object" THEN fnIn.secrets.entries ELSE <<>>

\* the text expected for a value: the string itself, '3000' for 3000, '7' for 7
ExpectedText(v) ==
    CASE v.t = "str" -> v.s
      [] v.t = "num" /\ v.n = 3000 -> <<"3","0","0","0">>
      [] v.t = "num" /\ v.n = 7 -> <<"7">>

\* C18: buildBindings returns exactly: a plain_text record per environment
\* variable, then a secret_text record per secret, then a kv_namespace record
\* per KV entry, then a d1 record per D1 entry, then an r2_bucket record per
\* R2 entry; text is the string form of the value; null, undefined or empty
\* inputs give the empty list.
C18_BindingsInCategoryOrder ==
    fnPc = "applied" =>
        LET ev == GivenEntries("environment_variables")
            se == GivenSecrets
            kv == GivenEntries("kv_namespaces")
            d1 == GivenEntries("d1_databases")
            r2 == GivenEntries("r2_buckets")
            o1 == Len(ev)
            o2 == o1 + Len(se)
            o3 == o2 + Len(kv)
            o4 == o3 + Len(d1)
        IN  /\ Len(fnOut) = o4 + Len(r2)
            /\ \A i \in 1..Len(ev) :
                  fnOut[i] = [name |-> ev[i].name, type |-> "plain_text",
                              text |-> ExpectedText(ev[i].value)]
            /\ \A i \in 1..Len(se) :
                  fnOut[o1 + i] = [name |-> se[i].name, type |-> "secret_text",
                                   text |-> ExpectedText(se[i].value)]
            /\ \A i \in 1..Len(kv) :
                  fnOut[o2 + i] = [name |-> kv[i].binding, type |-> "kv_namespace",
                                   namespace_id |-> kv[i].id]
            /\ \A i \in 1..Len(d1) :
                  fnOut[o3 + i] = [name |-> d1[i].binding, type |-> "d1",
                                   id |-> d1[i].database_id]
            /\ \A i \in 1..Len(r2) :
                  fnOut[o4 + i] = [name |-> r2[i].binding, type |-> "r2_bucket",
                                   bucket_name |-> r2[i].bucket_name]

C18_Witness ==
    /\ fnPc = "applied"
    /\ Len(GivenEntries("environment_variables")) = 2
    /\ GivenEntries("environment_variables")[2].name = "PORT"
    /\ Len(GivenSecrets) = 1
    /\ Len(GivenEntries("kv_namespaces")) = 2
    /\ Len(GivenEntries("d1_databases")) = 1
    /\ Len(GivenEntries("r2_buckets")) = 1
    /\ Len(fnOut) = 7
    /\ fnOut[2] = [name |-> "PORT", type |-> "plain_text", text |-> <<"3","0","0","0">>]
    /\ fnOut[7].type = "r2_bucket"

----------------------------------------------------------------------------
(* Specification of syncPages called on its own, over the declared build   *)
(* and preview sections: "worker_gate" is the return to the caller,        *)
(* "main_catch" the error propagated to the caller                         *)

PagesConfigs ==
    [name : {<<"m","y">>}, allow_recreate : {"undefined"},
     production_branch : {DefaultBranch}, worker : {NoWorkerConfig},
     repo : {Repo}, build : BuildConfigs, preview : PreviewConfigs]

InitPages ==
    /\ env = IdleEnv
    /\ config \in PagesConfigs
    /\ remote \in InitialRemotes(config.name)
    /\ allowRecreate \in BOOLEAN
    /\ pc = "pages_get"
    /\ RunState
    /\ Alone
    /\ FnIdle

NextPages ==
    \/ PagesGet
    \/ PagesAbort
    \/ PagesDelete
    \/ PagesRecreate
    \/ PagesCreate
    \/ PagesEdit
    \/ PagesFinish

SpecPages == InitPages /\ [][NextPages]_vars

IsMutation(c) == c.op \in {"create", "edit"}

\* C19: the build_config of every create and edit renames the declared build
\* section: build_command = build.command or '', destination_dir =
\* build.output or '.', root_dir = build.root or '' (the default also stands
\* in for an empty string); {command:'npm run build', output:'dist', root:''}
\* gives {'npm run build', 'dist', ''} and {} gives {'', '.', ''}.
C19_BuildConfigRenamed ==
    \A i \in 1..Len(calls) :
        IsMutation(calls[i]) =>
            LET sent == calls[i].payload.build_config
                b == config.build
            IN  /\ sent.build_command =
                      (IF b.defined /\ b.command.defined THEN b.command.value ELSE <<>>)
                /\ sent.destination_dir =
                      (IF b.defined /\ b.output.defined /\ b.output.value # <<>>
                       THEN b.output.value ELSE <<".">>)
                /\ sent.root_dir =
                      (IF b.defined /\ b.root.defined THEN b.root.value ELSE <<>>)
                /\ b = MainBuild =>
                      sent = [build_command |-> NpmRunBuild, destination_dir |-> Dist,
                              root_dir |-> <<>>]
                /\ (b.defined /\ ~b.command.defined /\ ~b.output.defined /\ ~b.root.defined) =>
                      sent = [build_command |-> <<>>, destination_dir |-> <<".">>,
                              root_dir |-> <<>>]

C19_Witness ==
    /\ Len(calls) = 2
    /\ calls[2].op = "create"
    /\ config.build.defined
    /\ ~config.build.command.defined
    /\ ~config.build.output.defined
    /\ ~config.build.root.defined
    /\ calls[2].payload.build_config.destination_dir = <<".">>

\* C20: every create and edit carries source.type = 'github' with
\* deployments_enabled = true, production_deployments_enabled = true and
\* preview_deployment_setting = 'all', whatever is declared;
\* preview_branch_includes is preview.branches (['*'] if unset) and
\* preview_branch_excludes is preview.exclude ([] if unset).
C20_SourceForcedOn ==
    \A i \in 1..Len(calls) :
        IsMutation(calls[i]) =>
            LET sent == calls[i].payload.source
                p == config.preview
            IN  /\ sent.type = "github"
                /\ sent.config.deployments_enabled = TRUE
                /\ sent.config.production_deployments_enabled = TRUE
                /\ sent.config.preview_deployment_setting = "all"
                /\ sent.config.preview_branch_includes =
                      (IF p.defined /\ p.branches.defined THEN p.branches.value ELSE <<"*">>)
                /\ sent.config.preview_branch_excludes =
                      (IF p.defined /\ p.exclude.defined THEN p.exclude.value ELSE <<>>)

C20_Witness ==
    /\ Len(calls) = 2
    /\ calls[2].op = "edit"
    /\ config.preview.defined
    /\ config.preview.branches = Some(<<"develop", "staging">>)
    /\ ~config.preview.exclude.defined
    /\ calls[2].payload.source.config.preview_branch_includes = <<"develop", "staging">>
    /\ calls[2].payload.source.config.preview_branch_excludes = <<>>

----------------------------------------------------------------------------
(* lib/defaults.mjs: applyDefaults, in its two revisions                   *)
(*   src/unnamed/part_002: deepMerge(DEFAULTS, config)                     *)
(*   src/unnamed/part_001: one "if (!field)" test per field                *)

Master == <<"m","a","s","t","e","r">>

WorkerJs == <<"w","o","r","k","e","r","/","w","o","r","k","e","r",".","j","s">>

CustomJs == <<"c","u","s","t","o","m",".","j","s">>

\* new Date().toISOString().split('T')[0]
Today == <<"t","o","d","a","y">>

NoRepo == [defined |-> FALSE, owner |-> Undefined, name |-> Undefined]

NoWorkerSection ==
    [defined |-> FALSE, name |-> Undefined, main |-> Undefined,
     compatibility_date |-> Undefined, deploy_previews |-> "undefined"]

DEFAULTS ==
    [production_branch |-> Some(DefaultBranch),
     build |-> [defined |-> TRUE, command |-> Some(NpmRunBuild), output |-> Some(Dist),
                root |-> Some(<<>>)],
     preview |-> [defined |-> TRUE, branches |-> Some(<<"*">>), exclude |-> Some(<<>>)]]

WORKER_DEFAULTS == [main |-> Some(WorkerJs)]

\* !x on an optional string: undefined and the empty string are falsy
Falsy(x) == ~x.defined \/ x.value = <<>>

\* deepMerge on one key whose value is a string or an array: an own key of
\* overrides replaces the default
MergeKey(d, o) == IF o.defined THEN o ELSE d

\* deepMerge(DEFAULTS, config)
deepMerge(defaults, overrides) ==
    [name |-> overrides.name,
     production_branch |-> MergeKey(defaults.production_branch, overrides.production_branch),
     repo |-> overrides.repo,
     build |-> IF overrides.build.defined
               THEN [defined |-> TRUE,
                     command |-> MergeKey(defaults.build.command, overrides.build.command),
                     output |-> MergeKey(defaults.build.output, overrides.build.output),
                     root |-> MergeKey(defaults.build.root, overrides.build.root)]
               ELSE defaults.build,
     preview |-> IF overrides.preview.defined
                 THEN [defined |-> TRUE,
                       branches |-> MergeKey(defaults.preview.branches, overrides.preview.branches),
                       exclude |-> MergeKey(defaults.preview.exclude, overrides.preview.exclude)]
                 ELSE defaults.preview,
     worker |-> overrides.worker]

\* deepMerge(workerDefaults, result.worker)
deepMergeWorker(workerDefaults, worker) ==
    [defined |-> TRUE,
     name |-> worker.name,
     main |-> MergeKey(workerDefaults.main, worker.main),
     compatibility_date |-> MergeKey(workerDefaults.compatibility_date, worker.compatibility_date),
     deploy_previews |-> worker.deploy_previews]

\* applyDefaults of src/unnamed/part_002
applyDefaults(cfg, hasWorkerFolder, options) ==
    LET merged == deepMerge(DEFAULTS, cfg)
        withRepo ==
            IF ~merged.repo.defined /\ ~Falsy(options.repoOwner) /\ ~Falsy(options.repoName)
            THEN [merged EXCEPT !.repo = [defined |-> TRUE, owner |-> options.repoOwner,
                                          name |-> options.repoName]]
            ELSE merged
        withWorker ==
            IF ~withRepo.worker.defined /\ hasWorkerFolder
            THEN [withRepo EXCEPT !.worker.defined = TRUE]
            ELSE withRepo
    IN  IF withWorker.worker.defined
        THEN [withWorker EXCEPT !.worker =
                 deepMergeWorker([main |-> WORKER_DEFAULTS.main, compatibility_date |-> Some(Today)],
                                 withWorker.worker)]
        ELSE withWorker

\* applyDefaults of src/unnamed/part_001
applyDefaultsPerField(cfg, hasWorkerFolder, options) ==
    LET worker ==
            IF ~cfg.worker.defined /\ hasWorkerFolder
            THEN [cfg.worker EXCEPT !.defined = TRUE]
            ELSE cfg.worker
    IN  [name |-> cfg.name,
         production_branch |->
             IF Falsy(cfg.production_branch) THEN Some(DefaultBranch) ELSE cfg.production_branch,
         repo |-> [defined |-> TRUE,
                   owner |-> IF Falsy(cfg.repo.owner) /\ ~Falsy(options.repoOwner)
                             THEN options.repoOwner ELSE cfg.repo.owner,
                   name |-> IF Falsy(cfg.repo.name) /\ ~Falsy(options.repoName)
                            THEN options.repoName ELSE cfg.repo.name],
         build |-> [defined |-> TRUE,
                    command |-> IF Falsy(cfg.build.command) THEN Some(NpmRunBuild)
                                ELSE cfg.build.command,
                    output |-> IF Falsy(cfg.build.output) THEN Some(Dist) ELSE cfg.build.output,
                    root |-> IF ~cfg.build.root.defined THEN Some(<<>>) ELSE cfg.build.root],
         preview |-> [defined |-> TRUE,
                      branches |-> IF ~cfg.preview.branches.defined THEN Some(<<"*">>)
                                   ELSE cfg.preview.branches,
                      exclude |-> IF ~cfg.preview.exclude.defined THEN Some(<<>>)
                                  ELSE cfg.preview.exclude],
         worker |-> IF worker.defined
                    THEN [defined |-> TRUE,
                          name |-> IF Falsy(worker.name) THEN Some(cfg.name) ELSE worker.name,
                          main |-> IF Falsy(worker.main) THEN Some(WorkerJs) ELSE worker.main,
                          compatibility_date |->
                              IF Falsy(worker.compatibility_date) THEN Some(Today)
                              ELSE worker.compatibility_date,
                          deploy_previews |->
                              IF worker.deploy_previews = "undefined" THEN "bool:true"
                              ELSE worker.deploy_previews]
                    ELSE worker]

\* raw cloudflare.json contents
RawProductionBranches == {Undefined, Some(<<>>), Some(Master)}

RawRepos ==
    {NoRepo,
     [defined |-> TRUE, owner |-> Some(<<"e","x">>), name |-> Some(<<"r">>)],
     [defined |-> TRUE, owner |-> Some(<<"e","x">>), name |-> Undefined]}

RawPreviews ==
    {NoPreview,
     [defined |-> TRUE, branches |-> Undefined, exclude |-> Undefined],
     [defined |-> TRUE, branches |-> Some(<<>>), exclude |-> Some(<<"dependabot/*">>)]}

RawWorkers ==
    {NoWorkerSection,
     [NoWorkerSection EXCEPT !.defined = TRUE],
     [NoWorkerSection EXCEPT !.defined = TRUE, !.main = Some(CustomJs),
                             !.deploy_previews = "bool:false"],
     [NoWorkerSection EXCEPT !.defined = TRUE, !.main = Some(<<>>), !.name = Some(<<"w">>)]}

RawConfigs ==
    [name : {<<"m","y">>}, production_branch : RawProductionBranches, repo : RawRepos,
     build : BuildConfigs, preview : RawPreviews, worker : RawWorkers]

\* options: repo info from GITHUB_REPOSITORY, or none
DefaultsOptions ==
    {[repoOwner |-> Undefined, repoName |-> Undefined],
     [repoOwner |-> Some(<<"o","r","g">>), repoName |-> Some(<<"r","e","p","o">>)]}

InitDefaults ==
    /\ env = IdleEnv
    /\ config = IdleConfig
    /\ remote = Absent
    /\ RunStart
    /\ fnPc = "ready"
    /\ fnIn \in [config : RawConfigs, hasWorkerFolder : BOOLEAN, options : DefaultsOptions]
    /\ fnOut = <<>>

\* one evaluation of applyDefaults as src/unnamed/part_002 has it
ApplyDefaults ==
    /\ fnPc = "ready"
    /\ fnOut' = applyDefaults(fnIn.config, fnIn.hasWorkerFolder, fnIn.options)
    /\ fnPc' = "merged"
    /\ UNCHANGED fnIn
    /\ UNCHANGED mainVars

\* one evaluation of applyDefaults as src/unnamed/part_001 has it
ApplyDefaultsPerField ==
    /\ fnPc = "ready"
    /\ fnOut' = applyDefaultsPerField(fnIn.config, fnIn.hasWorkerFolder, fnIn.options)
    /\ fnPc' = "filled"
    /\ UNCHANGED fnIn
    /\ UNCHANGED mainVars

NextDefaults ==
    \/ ApplyDefaults
    \/ ApplyDefaultsPerField

SpecDefaults == InitDefaults /\ [][NextDefaults]_vars

\* the user's value of one field is carried unchanged
Kept(given, got) == given.defined => got = given

KeptAll(raw, res) ==
    /\ Kept(raw.production_branch, res.production_branch)
    /\ raw.build.defined =>
          /\ Kept(raw.build.command, res.build.command)
          /\ Kept(raw.build.output, res.build.output)
          /\ Kept(raw.build.root, res.build.root)
    /\ raw.repo.defined =>
          /\ Kept(raw.repo.owner, res.repo.owner)
          /\ Kept(raw.repo.name, res.repo.name)
    /\ raw.preview.defined =>
          /\ Kept(raw.preview.branches, res.preview.branches)
          /\ Kept(raw.preview.exclude, res.preview.exclude)
    /\ raw.worker.defined =>
          /\ Kept(raw.worker.main, res.worker.main)
          /\ Kept(raw.worker.name, res.worker.name)
          /\ raw.worker.deploy_previews # "undefined" =>
                res.worker.deploy_previews = raw.worker.deploy_previews

\* C21: applyDefaults carries every value the user set in cloudflare.json
\* unchanged (production_branch, build.command, build.output, build.root, an
\* explicit repo, worker.main, ...); a default appears only where the user
\* supplied nothing.
C21_UserValuesPreserved ==
    fnPc \in {"merged", "filled"} => KeptAll(fnIn.config, fnOut)

----------------------------------------------------------------------------
(* Specification of normalizeBranchName applied once and again *)

InitNormalize ==
    /\ env = IdleEnv
    /\ config = IdleConfig
    /\ remote = Absent
    /\ RunStart
    /\ fnPc = "ready"
    /\ fnIn \in [branch : FnBranches]
    /\ fnOut = <<>>

\* normalizeBranchName(branch), and normalizeBranchName of that result
ApplyNormalizeTwice ==
    /\ fnPc = "ready"
    /\ fnOut' = [once |-> normalizeBranchName(fnIn.branch),
                 twice |-> normalizeBranchName(normalizeBranchName(fnIn.branch))]
    /\ fnPc' = "applied"
    /\ UNCHANGED fnIn
    /\ UNCHANGED mainVars

NextNormalize == ApplyNormalizeTwice

SpecNormalize == InitNormalize /\ [][NextNormalize]_vars

\* C22: normalizeBranchName is idempotent: for every branch b,
\* normalizeBranchName(normalizeBranchName(b)) = normalizeBranchName(b).
C22_NormalizeIdempotent ==
    fnPc = "applied" => fnOut.twice = fnOut.once

C22_Witness ==
    /\ fnPc = "applied"
    /\ fnIn.branch = <<"/","A","/">>
    /\ fnOut.once = <<"-","a","-">>
    /\ fnOut.twice = <<"-","a","-">>

----------------------------------------------------------------------------
(* Claims on syncWorker: production detection, order, result, base name *)

\* the branch differs from the declared production branch in letter case only
CaseOnlyDifference ==
    /\ BranchOf(env) # config.production_branch
    /\ ToLowerCase(BranchOf(env)) = ToLowerCase(config.production_branch)

WorkerStarted == pc \notin {"worker_start"}

\* C23: production detection is an exact, case-sensitive comparison made
\* before normalization: a branch differing from the production branch only
\* in letter case ('Main' against 'main') is a preview: it is skipped when
\* deploy_previews is false and otherwise published under
\* normalize(branch) + '-' + base, never under base.
C23_CaseSensitiveProduction ==
    (config.worker.present /\ CaseOnlyDifference /\ WorkerStarted) =>
        IF config.worker.deploy_previews = "bool:false"
        THEN /\ pc = "summary"
             /\ calls = <<>>
             /\ scripts = {}
        ELSE /\ workerName = ToLowerCase(BranchOf(env)) \o <<"-">> \o config.name
             /\ workerName # config.name
             /\ \A i \in 1..Len(calls) :
                   calls[i].op = "scripts.update" => calls[i].name = workerName

C23_Witness ==
    /\ config.worker.present
    /\ config.worker.deploy_previews = "undefined"
    /\ config.production_branch = DefaultBranch
    /\ BranchOf(env) = <<"M","a","i","n">>
    /\ config.name = <<"m","y">>
    /\ scripts = {<<"m","a","i","n","-","m","y">>}
    /\ workerResult.published

\* the place of a step in syncWorker
StepRank(op) ==
    CASE op = "build" -> 1
      [] op = "readFile" -> 2
      [] op = "scripts.update" -> 3
      [] op = "subdomains.get" -> 4

Failed(op) == \E i \in 1..Len(raised) : raised[i].op = op

\* C24: syncWorker's steps run in a fixed order, each only after the one
\* before it succeeded: the declared build command (if any), then the read
\* of the entry point, then scripts.update, then subdomains.get; a failed
\* build or a missing entry point propagates and scripts.update is never
\* invoked in that run.
C24_WorkerStepsInOrder ==
    /\ \A i, j \in 1..Len(calls) :
          i < j => StepRank(calls[i].op) < StepRank(calls[j].op)
    /\ Invoked("readFile") =>
          /\ config.worker.build_command <=> Invoked("build")
          /\ ~Failed("build")
    /\ Invoked("scripts.update") => (Invoked("readFile") /\ ~Failed("readFile"))
    /\ Invoked("subdomains.get") =>
          /\ Invoked("scripts.update")
          /\ ~Failed("scripts.update")
          /\ workerName \in scripts
    /\ (Failed("build") \/ Failed("readFile")) =>
          /\ pc = "main_catch"
          /\ thrown = raised[Len(raised)]
          /\ thrown.op \in {"build", "readFile"}
          /\ ~Invoked("scripts.update")
          /\ scripts = {}

C24_Witness ==
    /\ Len(calls) = 2
    /\ calls[1].op = "build"
    /\ calls[2].op = "readFile"
    /\ raised = <<[status |-> 0, op |-> "readFile"]>>
    /\ thrown.op = "readFile"
    /\ pc = "main_catch"

\* the identity of the run: the project name, prefixed on a preview branch
IdentityOfRun ==
    IF BranchOf(env) = config.production_branch
    THEN config.name
    ELSE [i \in 1..Len(BranchOf(env)) |-> NormalChar(BranchOf(env)[i])]
         \o <<"-">> \o config.name

UpdateCalls == SelectSeq(calls, LAMBDA c : c.op = "scripts.update")

\* C25: on a successful publish there is a single scripts.update call, under
\* exactly the computed identity; syncWorker returns workerName = identity
\* and workerUrl = 'https://' + identity + '.' + subdomain + '.workers.dev',
\* subdomain being the value subdomains.get returned.
C25_PublishResult ==
    workerResult.published =>
        /\ Len(UpdateCalls) = 1
        /\ UpdateCalls[1].name = IdentityOfRun
        /\ workerResult.workerName = IdentityOfRun
        /\ subdomainInfo.subdomain \in WorkerSubdomains
        /\ workerResult.workerUrl =
              <<"h","t","t","p","s",":","/","/">> \o IdentityOfRun \o <<".">>
              \o subdomainInfo.subdomain
              \o <<".","w","o","r","k","e","r","s",".","d","e","v">>

C25_Witness ==
    /\ workerResult.published
    /\ config.name = <<"m","y">>
    /\ BranchOf(env) = <<"f","/","X">>
    /\ subdomainInfo.subdomain = <<"m","y","a","c","c","o","u","n","t">>
    /\ workerResult.workerUrl =
          <<"h","t","t","p","s",":","/","/","f","-","x","-","m","y",".",
            "m","y","a","c","c","o","u","n","t",
            ".","w","o","r","k","e","r","s",".","d","e","v">>

----------------------------------------------------------------------------
(* Claim on getWorkerName: previews keep off the production name *)

\* C30: within one project (fixed base name and production branch) a preview
\* never targets the production identity: for every branch different from
\* the production branch getWorkerName returns a name different from the
\* base name.
C30_PreviewNeverProductionName ==
    (fnPc = "applied" /\ fnIn.branch # fnIn.productionBranch) =>
        fnOut # fnIn.baseName

C30_Witness ==
    /\ fnPc = "applied"
    /\ fnIn.baseName = ApiName
    /\ fnIn.branch = <<"M","a","i","n">>
    /\ fnIn.productionBranch = DefaultBranch
    /\ fnOut = <<"m","a","i","n","-","a","p","i">>

----------------------------------------------------------------------------
(* Claim on the recreate path of syncPages *)

CallsOf(op) == SelectSeq(calls, LAMBDA c : c.op = op)

\* C29: in the recreate path projects.create is invoked only after
\* projects.delete has returned successfully; if delete fails create is
\* never invoked; if create fails after a successful delete the error
\* propagates with no retry, no pages-url output is written and the run ends
\* with the project absent on the platform (no rollback).
C29_RecreateFailure ==
    Invoked("delete") =>
        /\ Failed("delete") => (~Invoked("create") /\ thrown.op = "delete")
        /\ Invoked("create") =>
              /\ ~Failed("delete")
              /\ PagesCalls = <<GetCall, DeleteCall, CreateGithubCall>>
        /\ Failed("create") =>
              /\ Len(CallsOf("create")) = 1
              /\ Len(CallsOf("delete")) = 1
              /\ thrown = raised[Len(raised)]
              /\ thrown.op = "create"
              /\ pc \in {"main_catch", "exited"}
              /\ ~Produced("pages-url")
              /\ pagesUrl = <<>>
              /\ ~remote.present

C29_Witness ==
    /\ PagesCalls = <<GetCall, DeleteCall, CreateGithubCall>>
    /\ thrown.op = "create"
    /\ pc = "exited"
    /\ exitCode = ExitFailure
    /\ remote = Absent
    /\ existingProject.present
    /\ outputs = <<>>

----------------------------------------------------------------------------
(* Specification of syncPages run again and again on one project, with the *)
(* same configuration and nothing else changing the platform              *)

RepeatConfigs == {c \in PagesConfigs : c.build = MainBuild /\ c.preview = NoPreview}

InitRepeat ==
    /\ env = IdleEnv
    /\ config \in RepeatConfigs
    /\ remote \in InitialRemotes(config.name)
    /\ allowRecreate \in BOOLEAN
    /\ pc = "pages_get"
    /\ RunState
    /\ Alone
    /\ FnIdle

\* syncPages has returned, thrown, or ended the process
RunEnded == pc \in {"worker_gate", "main_catch", "exited"}

OutcomeOf(p) ==
    CASE p = "worker_gate" -> "returned"
      [] p = "main_catch" -> "threw"
      [] p = "exited" -> "exited"

\* the run is over; syncPages is called again with the same configuration
NextRun ==
    /\ RunEnded
    /\ Len(history) < MaxRuns - 1
    /\ history' = Append(history, [outcome |-> OutcomeOf(pc),
                                   allowRecreate |-> allowRecreate,
                                   ops |-> [i \in 1..Len(calls) |-> calls[i].op]])
    /\ allowRecreate' \in BOOLEAN
    /\ pc' = "pages_get"
    /\ existingProject' = Absent
    /\ calls' = <<>>
    /\ thrown' = NoError
    /\ raised' = <<>>
    /\ pagesUrl' = <<>>
    /\ outputs' = <<>>
    /\ exitCode' = 0
    /\ UNCHANGED <<env, config, remote, workerName, workerResult, scripts,
                   subdomainInfo, peer>>
    /\ UNCHANGED fnVars

NextRepeat ==
    \/ PagesGet
    \/ PagesAbort
    \/ PagesDelete
    \/ PagesRecreate
    \/ PagesCreate
    \/ PagesEdit
    \/ PagesFinish
    \/ NextRun

SpecRepeat == InitRepeat /\ [][NextRepeat]_vars

\* run k of the history came after a run that succeeded
AfterSuccess(k) == \E j \in 1..(k - 1) : history[j].outcome = "returned"

HasOp(ops, op) == \E i \in 1..Len(ops) : ops[i] = op

\* C27: reconciliation converges and is idempotent: from any remote state,
\* once one run of syncPages has succeeded, every later run with the same
\* configuration and no outside change takes the update-in-place path and
\* never invokes projects.delete or projects.create, whatever allowRecreate.
C27_ConvergesToEdit ==
    /\ \A k \in 1..Len(history) :
          AfterSuccess(k) =>
              /\ ~HasOp(history[k].ops, "delete")
              /\ ~HasOp(history[k].ops, "create")
              /\ history[k].outcome # "exited"
              /\ history[k].outcome = "returned" => history[k].ops = <<"get", "edit">>
    /\ AfterSuccess(Len(history) + 1) =>
          /\ ~Invoked("delete")
          /\ ~Invoked("create")
          /\ pc # "exited"
          /\ pc = "pages_decide" => PagesPath(existingProject, allowRecreate) = "edit"
          /\ pc \in {"pages_finish", "worker_gate"} => PagesCalls = <<GetCall, EditCall>>

C27_Witness ==
    /\ Len(history) = 2
    /\ history[1].outcome = "returned"
    /\ history[1].ops = <<"get", "delete", "create">>
    /\ history[2].outcome = "returned"
    /\ history[2].allowRecreate
    /\ history[2].ops = <<"get", "edit">>
    /\ allowRecreate
    /\ pc = "worker_gate"
    /\ PagesCalls = <<GetCall, EditCall>>

----------------------------------------------------------------------------
(* Specification of two runs of syncPages on one project, interleaved at   *)
(* their awaits: the running one is in the run variables, the suspended    *)
(* one in peer                                                             *)

InitRace ==
    /\ env = IdleEnv
    /\ config \in RepeatConfigs
    /\ remote \in InitialRemotes(config.name)
    /\ allowRecreate \in BOOLEAN
    /\ pc = "pages_get"
    /\ RunState
    /\ history = <<>>
    /\ peer \in {[NoPeer EXCEPT !.pc = "pages_get", !.allowRecreate = a] : a \in BOOLEAN}
    /\ FnIdle

\* the running run waits on the platform and the other one goes on
Switch ==
    /\ peer.pc # "none"
    /\ peer' = [pc |-> pc, allowRecreate |-> allowRecreate,
                existingProject |-> existingProject, thrown |-> thrown,
                pagesUrl |-> pagesUrl, exitCode |-> exitCode]
    /\ pc' = peer.pc
    /\ allowRecreate' = peer.allowRecreate
    /\ existingProject' = peer.existingProject
    /\ thrown' = peer.thrown
    /\ pagesUrl' = peer.pagesUrl
    /\ exitCode' = peer.exitCode
    /\ UNCHANGED <<env, config, remote, calls, raised, outputs, workerName,
                   workerResult, scripts, subdomainInfo, history>>
    /\ UNCHANGED fnVars

NextRace ==
    \/ PagesGet
    \/ PagesAbort
    \/ PagesDelete
    \/ PagesRecreate
    \/ PagesCreate
    \/ PagesEdit
    \/ PagesFinish
    \/ Switch

SpecRace == InitRace /\ [][NextRace]_vars

\* this step is a call of projects.delete
DeleteStep ==
    /\ Len(calls') = Len(calls) + 1
    /\ calls'[Len(calls')].op = "delete"

\* C28: a project whose source is 'github' at the moment projects.delete is
\* called is never deleted, also when two runs of syncPages for the same
\* project with allowRecreate = true interleave.
C28_GithubProjectNeverDeleted ==
    [][(DeleteStep /\ remote.present /\ remote.source = "github") => remote'.present]_vars

====
